---------------------------- MODULE Spec2Model ----------------------------
(***************************************************************************)
(* A model of the synthetic e-commerce dataset scripts:                    *)
(*   scripts/generate_data.py   the generator (five tables, five CSVs)     *)
(*   scripts/ingest_sqlite.py   the SQLite loader                          *)
(*   scripts/query_run.py       the query runner                           *)
(*   scripts/visualize_reports.py  the chart renderer                      *)
(*                                                                         *)
(* Money is held in cents (the code rounds every amount to 2 decimals).    *)
(* Columns no property reads (names, dates, status, rating, text) are left *)
(* out of the rows; the draws that fill them are not modelled.             *)
(*                                                                         *)
(* Two random sources are kept apart, as in the code:                      *)
(*   - Python's `random` module, seeded by random.seed(RANDOM_SEED): a     *)
(*     deterministic stream.  `tape` is that stream (the values it yields, *)
(*     in call order) and `pyPos` the position of the running process.     *)
(*     A draw past the end of the tape is free and extends the tape; a     *)
(*     draw at a position already on the tape (a later run, same seed)     *)
(*     yields the recorded value.                                          *)
(*   - DataFrame.sample(), which draws from numpy's global generator.      *)
(*     random.seed() does not seed it, so each such draw is free in every  *)
(*     run.                                                                *)
(***************************************************************************)
EXTENDS Integers, Sequences, FiniteSets, TLC

\* The module constants NUM_PRODUCTS, NUM_CUSTOMERS, NUM_ORDERS and
\* MAX_ITEMS_PER_ORDER (50, 100, 500, 5 in generate_data.py) are scaled down:
\* the model runs the program for every choice of the four, each at least 1,
\* whose sum is at most MaxSize.
MaxSize == 7

\* main() is run at most MaxRuns times.
MaxRuns == 2

\* REVIEW_PROBABILITY = 0.6, in hundredths.
REVIEW_PROBABILITY == 60

\* The placeholder create_orders writes into order_total, in cents.
PLACEHOLDER_TOTAL == 0

\* Values of random.uniform(5, 80) (cents) and random.uniform(1.2, 2.5)
\* (thousandths) the model draws.
CostDraws == {500, 8000}
MarkupDraws == {1215}
\* Values of random.randint(1, 4) the model draws.
QuantityDraws == {3}
\* Values of random.random() (hundredths) the model draws: the last value
\* that emits a review and the first that skips.
RandomDraws == {REVIEW_PROBABILITY, REVIEW_PROBABILITY + 1}

FileNames == <<"products", "customers", "orders", "order_items", "reviews">>

FileSet == {FileNames[i] : i \in 1..Len(FileNames)}

VARIABLES
    cfg,           \* the module constants of generate_data.py
    pc,            \* where main() of generate_data.py stands
    run,           \* the number of the run of main() in progress or last ended
    tape, pyPos,   \* the seeded stream of `random` and the position in it
    products, customers, orders, order_items, reviews,   \* the DataFrames
    order_idx,     \* orders consumed by the running for-loop
    order_totals,  \* create_order_items: order_id -> accumulated total
    item_id,       \* create_order_items: next order_item_id
    review_id,     \* create_reviews: next review_id
    data_dir,      \* whether the directory data/ exists
    files,         \* data/<name>.csv: its state, the run that wrote it, its rows
    prev,          \* the rows of the five files when the previous run ended
    script,        \* the downstream script started last
    dpc,           \* where that script stands
    raised,        \* the exception that ended it, or "none"
    db,            \* db/ecom.db
    conn_fk,       \* foreign_keys of the open sqlite3 connection
    dataframes,    \* bulk_insert: the frames read from the CSVs
    insert_idx,    \* bulk_insert: tables appended so far
    chart_dir,     \* whether analysis/dashboards/ exists
    chart,         \* whether charts.png exists
    at_start       \* db and chart when the script was started

memory == <<products, customers, orders, order_items, reviews,
            order_idx, order_totals, item_id, review_id>>

downstream == <<script, dpc, raised, db, conn_fk, dataframes, insert_idx,
                chart_dir, chart, at_start>>

generator == <<pc, run, tape, pyPos, memory, prev>>

vars == <<cfg, generator, data_dir, files, downstream>>

NUM_PRODUCTS == cfg.NUM_PRODUCTS
NUM_CUSTOMERS == cfg.NUM_CUSTOMERS
NUM_ORDERS == cfg.NUM_ORDERS
MAX_ITEMS_PER_ORDER == cfg.MAX_ITEMS_PER_ORDER

Configs ==
    {c \in [NUM_PRODUCTS : 1..MaxSize, NUM_CUSTOMERS : 1..MaxSize,
            NUM_ORDERS : 1..MaxSize, MAX_ITEMS_PER_ORDER : 1..MaxSize] :
        c.NUM_PRODUCTS + c.NUM_CUSTOMERS + c.NUM_ORDERS + c.MAX_ITEMS_PER_ORDER
            <= MaxSize}

-----------------------------------------------------------------------------
(* Helpers *)

\* round(x, 2) of the exact value num/den cents, den > 0: Python rounds to
\* the nearest, ties to even.
Round2(num, den) ==
    LET q == num \div den
        r == num % den
    IN  IF 2 * r < den THEN q
        ELSE IF 2 * r > den THEN q + 1
        ELSE IF q % 2 = 0 THEN q ELSE q + 1

RECURSIVE SumSeq(_)
SumSeq(s) == IF s = <<>> THEN 0 ELSE Head(s) + SumSeq(Tail(s))

\* Faulty variant of ItemsOfOrder, for sensitivity runs: the filter on order_id is dropped.
ItemsOfAnyOrder(items, oid) == items

\* order_items[order_items["order_id"] == order_id]: the rows of the order,
\* in table order.
ItemsOfOrder(items, oid) ==
    LET Match(row) == row.order_id = oid IN SelectSeq(items, Match)

\* A draw from the seeded stream of `random`.
PyPick(S) == IF pyPos < Len(tape) THEN {tape[pyPos + 1]} \cap S ELSE S

PyAdvance(d) ==
    /\ tape' = IF pyPos < Len(tape) THEN tape ELSE Append(tape, d)
    /\ pyPos' = pyPos + 1

\* A draw of DataFrame.sample(n, replace=...): n row positions of a frame of
\* `len` rows, from numpy's global generator.
NpSample(len, n) == [1..n -> 1..len]

\* A file nobody wrote.
NoFile == [state |-> "missing", run |-> 0, rows |-> <<>>]

\* No database file, and one left by an earlier load (its rows are not looked at).
NoDb == [exists |-> FALSE, stale |-> FALSE, schema |-> FALSE,
         rows |-> [n \in FileSet |-> <<>>]]

StaleDb == [exists |-> TRUE, stale |-> TRUE, schema |-> TRUE,
            rows |-> [n \in FileSet |-> <<>>]]

\* The process ends: its DataFrames are gone.
ProcessExit ==
    /\ products' = <<>>
    /\ customers' = <<>>
    /\ orders' = <<>>
    /\ order_items' = <<>>
    /\ reviews' = <<>>
    /\ order_idx' = 0
    /\ order_totals' = <<>>
    /\ item_id' = 1
    /\ review_id' = 1

-----------------------------------------------------------------------------
(* main() of generate_data.py *)

\* Faulty variant of Stages, for sensitivity runs: create_reviews is called before create_order_items.
StagesReviewsFirst ==
    <<"main", "products", "customers", "orders", "reviews", "order_items",
      "write_products", "write_customers", "write_orders",
      "write_order_items", "write_reviews", "done">>

\* Faulty variant of Stages, for sensitivity runs: a table is written as soon as it exists.
StagesWriteEarly ==
    <<"main", "products", "write_products", "customers", "write_customers",
      "orders", "order_items", "reviews", "write_orders",
      "write_order_items", "write_reviews", "done">>

Stages == <<"main", "products", "customers", "orders", "order_items", "reviews",
            "write_products", "write_customers", "write_orders",
            "write_order_items", "write_reviews", "done">>

StageIndex(s) == CHOOSE i \in 1..Len(Stages) : Stages[i] = s

\* The statement main() runs after stage s.
NextStage(s) == Stages[StageIndex(s) + 1]

InitGenerator ==
    /\ pc = "main"
    /\ run = 0
    /\ tape = <<>>
    /\ pyPos = 0
    /\ products = <<>>
    /\ customers = <<>>
    /\ orders = <<>>
    /\ order_items = <<>>
    /\ reviews = <<>>
    /\ order_idx = 0
    /\ order_totals = <<>>
    /\ item_id = 1
    /\ review_id = 1
    /\ prev = <<>>

InitDownstream ==
    /\ script = "none"
    /\ dpc = "idle"
    /\ raised = "none"
    /\ conn_fk = FALSE
    /\ dataframes = <<>>
    /\ insert_idx = 0
    /\ chart_dir = FALSE
    /\ chart = FALSE
    /\ at_start = <<>>

Init ==
    /\ cfg \in Configs
    /\ InitGenerator
    /\ data_dir = FALSE
    /\ files = [n \in FileSet |-> NoFile]
    /\ InitDownstream
    /\ db = NoDb

\* random.seed(RANDOM_SEED); output_dir.mkdir(...)
main_seed ==
    /\ pc = "main"
    /\ run' = run + 1
    /\ pyPos' = 0
    /\ data_dir' = TRUE
    /\ pc' = NextStage(pc)
    /\ UNCHANGED <<cfg, downstream, tape, memory, files, prev>>

\* One iteration of the loop of create_products.
ProductRow(product_id, cost, markup) ==
    [product_id |-> product_id,
     price |-> Round2(cost * markup, 1000),
     cost |-> cost]

create_products ==
    /\ pc = "products"
    /\ Len(products) < NUM_PRODUCTS
    /\ \E d \in PyPick(CostDraws \X MarkupDraws) :
          /\ products' = Append(products, ProductRow(Len(products) + 1, d[1], d[2]))
          /\ PyAdvance(d)
    /\ pc' = IF Len(products') = NUM_PRODUCTS THEN NextStage(pc) ELSE pc
    /\ UNCHANGED <<cfg, data_dir, downstream, run, customers, orders, order_items, reviews,
                   order_idx, order_totals, item_id, review_id, files, prev>>

\* create_customers: every draw fills a column the model leaves out.
CustomerRow(customer_id) == [customer_id |-> customer_id]

create_customers ==
    /\ pc = "customers"
    /\ customers' = [i \in 1..NUM_CUSTOMERS |-> CustomerRow(i)]
    /\ pc' = NextStage(pc)
    /\ UNCHANGED <<cfg, data_dir, downstream, run, tape, pyPos, products, orders, order_items, reviews,
                   order_idx, order_totals, item_id, review_id, files, prev>>

\* One iteration of the loop of create_orders: customers.sample(1).
OrderRow(order_id, customer_id) ==
    [order_id |-> order_id, customer_id |-> customer_id,
     order_total |-> PLACEHOLDER_TOTAL]

\* Faulty variant of SampledCustomer, for sensitivity runs: the 0-based row position is taken for the id.
SampledCustomerPosition(custs, k) == k - 1

\* int(customers.sample(1)["customer_id"].iloc[0])
SampledCustomer(custs, k) == custs[k].customer_id

create_orders ==
    /\ pc = "orders"
    /\ Len(orders) < NUM_ORDERS
    /\ \E s \in NpSample(Len(customers), 1) :
          orders' = Append(orders,
                           OrderRow(Len(orders) + 1, SampledCustomer(customers, s[1])))
    /\ pc' = IF Len(orders') = NUM_ORDERS THEN NextStage(pc) ELSE pc
    /\ UNCHANGED <<cfg, data_dir, downstream, run, tape, pyPos, products, customers, order_items, reviews,
                   order_idx, order_totals, item_id, review_id, files, prev>>

\* One iteration of the outer loop of create_order_items:
\*   num_items = random.randint(1, MAX_ITEMS_PER_ORDER)
\*   product_choices = products.sample(num_items, replace=True)
\*   and, per chosen product, quantity = random.randint(1, 4).
\* Faulty variant of NumItemsRange, for sensitivity runs: random.randint(0, MAX_ITEMS_PER_ORDER).
NumItemsFromZero == 0..MAX_ITEMS_PER_ORDER

NumItemsRange == 1..MAX_ITEMS_PER_ORDER

ItemDraws == UNION {{<<n, q>> : q \in [1..n -> QuantityDraws]} : n \in NumItemsRange}

LineTotal(unit_price, quantity) == Round2(unit_price * quantity, 1)

OrderItemRow(id, order, product, quantity) ==
    [order_item_id |-> id,
     order_id |-> order.order_id,
     product_id |-> product.product_id,
     quantity |-> quantity,
     unit_price |-> product.price,
     line_total |-> LineTotal(product.price, quantity)]

\* The rows the inner loop appends for one order.
OrderRows(first_id, order, prods, choice, quantity) ==
    [j \in 1..Len(choice) |->
        OrderItemRow(first_id + j - 1, order, prods[choice[j]], quantity[j])]

\* Faulty variant of OrderTotal, for sensitivity runs: order_total = line_total in place of +=.
OrderTotalLast(rows) ==
    IF rows = <<>> THEN 0 ELSE Round2(rows[Len(rows)].line_total, 1)

\* order_total = 0.0; order_total += line_total ...; round(order_total, 2)
OrderTotal(rows) == Round2(SumSeq([j \in 1..Len(rows) |-> rows[j].line_total]), 1)

create_order_items ==
    /\ pc = "order_items"
    /\ order_idx < Len(orders)
    /\ \E d \in PyPick(ItemDraws) :
          \E choice \in NpSample(Len(products), d[1]) :
             LET order == orders[order_idx + 1]
                 rows == OrderRows(item_id, order, products, choice, d[2])
             IN  /\ order_items' = order_items \o rows
                 /\ item_id' = item_id + Len(rows)
                 /\ order_totals' = (order.order_id :> OrderTotal(rows)) @@ order_totals
                 /\ PyAdvance(d)
    /\ order_idx' = order_idx + 1
    /\ UNCHANGED <<cfg, data_dir, downstream, pc, run, products, customers, orders, reviews, review_id,
                   files, prev>>

\* orders["order_total"] = orders["order_id"].map(order_totals).fillna(0.0)
BackFill(ords, totals) ==
    [i \in 1..Len(ords) |->
        [ords[i] EXCEPT !.order_total =
            IF ords[i].order_id \in DOMAIN totals THEN totals[ords[i].order_id]
            ELSE 0]]

create_order_items_return ==
    /\ pc = "order_items"
    /\ order_idx = Len(orders)
    /\ orders' = BackFill(orders, order_totals)
    /\ order_idx' = 0
    /\ pc' = NextStage(pc)
    /\ UNCHANGED <<cfg, data_dir, downstream, run, tape, pyPos, products, customers, order_items, reviews,
                   order_totals, item_id, review_id, files, prev>>

\* One iteration of the loop of create_reviews.
ReviewRow(id, order, product_id) ==
    [review_id |-> id,
     order_id |-> order.order_id,
     product_id |-> product_id,
     customer_id |-> order.customer_id]

\* int(items.sample(1)["product_id"].iloc[0])
SampledProduct(items, k) == items[k].product_id

\* if random.random() > REVIEW_PROBABILITY: continue
SkipsReview(u) == u > REVIEW_PROBABILITY

\* Faulty variant of NoItems, for sensitivity runs: the guard is missing.
NoItemsIgnored(items) == FALSE

\* if items.empty: continue
NoItems(items) == items = <<>>

\* items.sample(1) of an empty frame raises ValueError, which ends the process.
create_reviews ==
    /\ pc = "reviews"
    /\ order_idx < Len(orders)
    /\ \E u \in PyPick(RandomDraws) :
          LET order == orders[order_idx + 1]
              items == ItemsOfOrder(order_items, order.order_id)
              Continue ==
                  /\ order_idx' = order_idx + 1
                  /\ pc' = IF order_idx' = Len(orders) THEN NextStage(pc) ELSE pc
                  /\ UNCHANGED <<products, customers, orders, order_items,
                                 order_totals, item_id>>
          IN  /\ PyAdvance(u)
              /\ IF SkipsReview(u) \/ NoItems(items)
                 THEN /\ UNCHANGED <<reviews, review_id>>
                      /\ Continue
                 ELSE IF Len(items) = 0
                 THEN /\ pc' = "crashed"
                      /\ ProcessExit
                 ELSE \E s \in NpSample(Len(items), 1) :
                         /\ reviews' = Append(reviews,
                               ReviewRow(review_id, order, SampledProduct(items, s[1])))
                         /\ review_id' = review_id + 1
                         /\ Continue
    /\ UNCHANGED <<cfg, data_dir, downstream, run, files, prev>>

\* <table>.to_csv(output_dir / "<name>.csv"): the five writes of main(), in
\* order.  After the last one main() returns and the process ends.
WriteStage(name) == "write_" \o name

Table(name) ==
    CASE name = "products" -> products
      [] name = "customers" -> customers
      [] name = "orders" -> orders
      [] name = "order_items" -> order_items
      [] name = "reviews" -> reviews

to_csv(name) ==
    /\ pc = WriteStage(name)
    /\ files' = [files EXCEPT
                    ![name] = [state |-> "written", run |-> run, rows |-> Table(name)]]
    /\ pc' = NextStage(pc)
    /\ IF pc' = "done" THEN ProcessExit ELSE UNCHANGED memory
    /\ UNCHANGED <<cfg, data_dir, downstream, run, tape, pyPos, prev>>

\* A write that fails (disk full, no permission) raises and ends the process;
\* the file it was writing is left as it was, or truncated.
to_csv_fails(name) ==
    /\ pc = WriteStage(name)
    /\ \E left \in {files[name], [state |-> "partial", run |-> run, rows |-> <<>>]} :
          files' = [files EXCEPT ![name] = left]
    /\ pc' = "crashed"
    /\ ProcessExit
    /\ UNCHANGED <<cfg, data_dir, downstream, run, tape, pyPos, prev>>

\* The script is started again once a run has ended normally: the same seed,
\* so the same stream of `random` from its start.
Outputs == [n \in FileSet |-> files[n].rows]

main_again ==
    /\ pc = "done"
    /\ run < MaxRuns
    /\ prev' = Outputs
    /\ pc' = "main"
    /\ UNCHANGED <<cfg, data_dir, downstream, run, tape, pyPos, memory, files>>

Next ==
    \/ main_seed
    \/ create_products
    \/ create_customers
    \/ create_orders
    \/ create_order_items
    \/ create_order_items_return
    \/ create_reviews
    \/ \E i \in 1..Len(FileNames) : to_csv(FileNames[i])
    \/ \E i \in 1..Len(FileNames) : to_csv_fails(FileNames[i])

\* One run of the generator.
Spec == Init /\ [][Next]_vars

NextRerun ==
    \/ Next
    \/ main_again

\* The generator run up to MaxRuns times.
SpecRerun == Init /\ [][NextRerun]_vars

-----------------------------------------------------------------------------
(* create_reviews(orders, order_items) as a function of its arguments: the  *)
(* order table of a run, and an order_items table in which an order may     *)
(* have any number of rows from 0 to MAX_ITEMS_PER_ORDER.                   *)

ArgProducts == [i \in 1..NUM_PRODUCTS |-> ProductRow(i, 500, 1215)]

ArgOrder(o, rows) ==
    [OrderRow(o, ((o - 1) % NUM_CUSTOMERS) + 1) EXCEPT !.order_total = OrderTotal(rows)]

\* The rows of order o when it has n of them.
ArgRows(o, n, first_id) ==
    OrderRows(first_id, OrderRow(o, ((o - 1) % NUM_CUSTOMERS) + 1), ArgProducts,
              [j \in 1..n |-> ((o + j) % NUM_PRODUCTS) + 1], [j \in 1..n |-> 1])

RECURSIVE ArgItems(_, _)
ArgItems(counts, o) ==
    IF o = 0 THEN <<>>
    ELSE LET before == ArgItems(counts, o - 1)
         IN  before \o ArgRows(o, counts[o], Len(before) + 1)

InitReviews ==
    /\ cfg \in Configs
    /\ pc = "reviews"
    /\ run = 1
    /\ tape = <<>>
    /\ pyPos = 0
    /\ products = ArgProducts
    /\ customers = [i \in 1..NUM_CUSTOMERS |-> CustomerRow(i)]
    /\ \E counts \in [1..NUM_ORDERS -> 0..MAX_ITEMS_PER_ORDER] :
          /\ order_items = ArgItems(counts, NUM_ORDERS)
          /\ orders = [o \in 1..NUM_ORDERS |->
                          ArgOrder(o, ItemsOfOrder(order_items, o))]
    /\ reviews = <<>>
    /\ order_idx = 0
    /\ order_totals = <<>>
    /\ item_id = Len(order_items) + 1
    /\ review_id = 1
    /\ prev = <<>>
    /\ data_dir = TRUE
    /\ files = [n \in FileSet |-> NoFile]
    /\ InitDownstream
    /\ db = NoDb

NextReviews == create_reviews

SpecReviews == InitReviews /\ [][NextReviews]_vars

-----------------------------------------------------------------------------
(* The downstream scripts.  Each is started on the files the generator and  *)
(* earlier loads left behind, runs to its end or to an exception, and exits.*)

\* The five tables of a run, for the files the downstream scripts start on.
RunOrders ==
    [o \in 1..NUM_ORDERS |-> ArgOrder(o, ArgRows(o, 1, o))]

RunTable(name) ==
    CASE name = "products" -> ArgProducts
      [] name = "customers" -> [i \in 1..NUM_CUSTOMERS |-> CustomerRow(i)]
      [] name = "orders" -> RunOrders
      [] name = "order_items" -> ArgItems([o \in 1..NUM_ORDERS |-> 1], NUM_ORDERS)
      [] name = "reviews" ->
            [o \in 1..NUM_ORDERS |->
                ReviewRow(o, RunOrders[o], ArgRows(o, 1, o)[1].product_id)]

WrittenFile(name) == [state |-> "written", run |-> 1, rows |-> RunTable(name)]

PartialFile == [state |-> "partial", run |-> 1, rows |-> <<>>]

\* The states of data/ the downstream scripts are started on: no directory;
\* the five files of a run; or those with one file missing or truncated.
InitFiles ==
    \/ /\ data_dir = FALSE
       /\ files = [n \in FileSet |-> NoFile]
    \/ /\ data_dir = TRUE
       /\ \/ files = [n \in FileSet |-> WrittenFile(n)]
          \/ \E bad \in FileSet : \E left \in {NoFile, PartialFile} :
                files = [n \in FileSet |-> IF n = bad THEN left ELSE WrittenFile(n)]

InitIngest ==
    /\ cfg \in Configs
    /\ InitGenerator
    /\ InitFiles
    /\ InitDownstream
    /\ db \in {NoDb, StaleDb}

StartScript(name) ==
    /\ dpc \in {"idle", "exited"}
    /\ script' = name
    /\ at_start' = <<db, chart>>

\* ingest_sqlite.main(), up to sqlite3.connect: the data directory is
\* checked, db/ is made and an existing database file is removed.
ingest_main ==
    /\ StartScript("ingest_sqlite")
    /\ IF ~data_dir
       THEN /\ raised' = "FileNotFoundError"
            /\ dpc' = "exited"
            /\ UNCHANGED db
       ELSE /\ raised' = "none"
            /\ dpc' = "create_tables"
            /\ db' = NoDb
    /\ conn_fk' = FALSE
    /\ dataframes' = <<>>
    /\ insert_idx' = 0
    /\ UNCHANGED <<cfg, generator, data_dir, files, chart_dir, chart>>

\* A connection left at SQLite's default: foreign keys are not checked.
PragmaForeignKeysOff == FALSE

\* The first statement of the script create_tables executes.
PragmaForeignKeys == TRUE

\* sqlite3.connect(DB_PATH) and create_tables(conn): the pragma, then the
\* five tables dropped and created.
create_tables ==
    /\ dpc = "create_tables"
    /\ conn_fk' = PragmaForeignKeys
    /\ db' = [exists |-> TRUE, stale |-> FALSE, schema |-> TRUE,
              rows |-> [n \in FileSet |-> <<>>]]
    /\ dpc' = "bulk_insert"
    /\ UNCHANGED <<cfg, generator, data_dir, files, script, raised, dataframes,
                   insert_idx, chart_dir, chart, at_start>>

\* load_csv(name): the file must exist.
CsvExists(name) == files[name].state # "missing"

\* bulk_insert, the dict of the five load_csv calls.
bulk_insert_load ==
    /\ dpc = "bulk_insert"
    /\ dataframes = <<>>
    /\ IF \A n \in FileSet : CsvExists(n)
       THEN /\ dataframes' = [n \in FileSet |-> files[n].rows]
            /\ UNCHANGED <<dpc, raised>>
       ELSE /\ raised' = "FileNotFoundError"
            /\ dpc' = "exited"
            /\ UNCHANGED dataframes
    /\ UNCHANGED <<cfg, generator, data_dir, files, script, db, conn_fk,
                   insert_idx, chart_dir, chart, at_start>>

\* The order of the dict bulk_insert iterates over.
InsertOrder == <<"products", "customers", "orders", "order_items", "reviews">>

\* The FOREIGN KEY clauses of create_tables: the column and the table and
\* column it references.
ForeignKeys(table) ==
    CASE table = "orders" -> {<<"customer_id", "customers">>}
      [] table = "order_items" -> {<<"order_id", "orders">>, <<"product_id", "products">>}
      [] table = "reviews" -> {<<"order_id", "orders">>, <<"product_id", "products">>,
                               <<"customer_id", "customers">>}
      [] OTHER -> {}

\* Whether every foreign key of the row names a row of the referenced table.
KeysResolve(table, row, rows) ==
    \A fk \in ForeignKeys(table) :
        \E i \in 1..Len(rows[fk[2]]) : rows[fk[2]][i][fk[1]] = row[fk[1]]

\* df.to_sql(table, conn, if_exists="append"): one transaction per table.
\* With foreign_keys on, a row whose key does not resolve raises
\* IntegrityError and the table's rows are rolled back.
bulk_insert_table ==
    /\ dpc = "bulk_insert"
    /\ dataframes # <<>>
    /\ insert_idx < Len(InsertOrder)
    /\ LET table == InsertOrder[insert_idx + 1]
           df == dataframes[table]
       IN  IF conn_fk /\ \E i \in 1..Len(df) : ~KeysResolve(table, df[i], db.rows)
           THEN /\ raised' = "IntegrityError"
                /\ dpc' = "exited"
                /\ UNCHANGED <<db, insert_idx>>
           ELSE /\ db' = [db EXCEPT !.rows[table] = @ \o df]
                /\ insert_idx' = insert_idx + 1
                /\ dpc' = IF insert_idx' = Len(InsertOrder) THEN "exited" ELSE dpc
                /\ UNCHANGED raised
    /\ UNCHANGED <<cfg, generator, data_dir, files, script, conn_fk, dataframes,
                   chart_dir, chart, at_start>>

\* query_run.main(): the database file must exist; the three queries only
\* read.
query_run_main ==
    /\ StartScript("query_run")
    /\ raised' = IF ~db.exists THEN "FileNotFoundError" ELSE "none"
    /\ dpc' = "exited"
    /\ UNCHANGED <<cfg, generator, data_dir, files, db, conn_fk, dataframes,
                   insert_idx, chart_dir, chart>>

\* visualize_reports.main(): ensure_output_dir() first, then the two
\* fetch_dataframe calls (an empty result is plotted as "No data
\* available"), then savefig.
visualize_main ==
    /\ StartScript("visualize_reports")
    /\ chart_dir' = TRUE
    /\ raised' = IF ~db.exists THEN "FileNotFoundError" ELSE "none"
    /\ chart' = IF raised' = "none" THEN TRUE ELSE chart
    /\ dpc' = "exited"
    /\ UNCHANGED <<cfg, generator, data_dir, files, db, conn_fk, dataframes,
                   insert_idx>>

NextIngest ==
    \/ ingest_main
    \/ create_tables
    \/ bulk_insert_load
    \/ bulk_insert_table
    \/ query_run_main
    \/ visualize_main

SpecIngest == InitIngest /\ [][NextIngest]_vars

-----------------------------------------------------------------------------
(* Properties *)

Rows(table) == {table[i] : i \in 1..Len(table)}

WriteStages == {WriteStage(n) : n \in FileSet}

\* The line totals of the rows of order_items that carry order id oid.
LineTotalsOf(items, oid) ==
    LET idx == SelectSeq([i \in 1..Len(items) |-> i],
                         LAMBDA i : items[i].order_id = oid)
    IN  [k \in 1..Len(idx) |-> items[idx[k]].line_total]

\* C1: every review names a product that some order_items row of the
\* review's own order carries, and the customer of that order.
C1_ReviewOfPurchasedProduct ==
    \A r \in Rows(reviews) :
        /\ \E it \in Rows(order_items) :
              it.order_id = r.order_id /\ it.product_id = r.product_id
        /\ \E o \in Rows(orders) :
              o.order_id = r.order_id /\ o.customer_id = r.customer_id

\* A review was emitted for an order that also holds a row of another product,
\* while another order holds a product the reviewed order does not.
C1_Witness ==
    \E r \in Rows(reviews) :
        /\ \E it \in Rows(order_items) :
              it.order_id = r.order_id /\ it.product_id # r.product_id
        /\ \E it \in Rows(order_items) : it.order_id # r.order_id

\* C2: once create_order_items has returned, every order's order_total is
\* round(sum of the line totals of its rows, 2), and an order holds the
\* placeholder only if its rows sum to 0.
C2_OrderTotalIsSum ==
    pc \in {"reviews"} \cup WriteStages =>
        \A o \in Rows(orders) :
            LET sum == SumSeq(LineTotalsOf(order_items, o.order_id))
            IN  /\ o.order_total = Round2(sum, 1)
                /\ o.order_total = PLACEHOLDER_TOTAL => sum = 0

\* create_order_items has returned and some order has two rows of different
\* line totals.
C2_Witness ==
    /\ pc \in WriteStages
    /\ \E a, b \in Rows(order_items) :
          a.order_id = b.order_id /\ a.line_total # b.line_total

\* C3: a second run of main() with the same seed ends with the same five
\* tables as the first.
C3_SameSeedSameTables ==
    (pc = "done" /\ run >= 2) => Outputs = prev

\* C4: phase 2 (the back-fill of order_total) is over before create_reviews
\* reads the orders table and before orders.csv is written: no order holds
\* the placeholder while create_reviews runs, and no row of orders.csv does.
C4_BackFillBeforeUse ==
    /\ pc = "reviews" =>
          /\ Len(orders) = NUM_ORDERS
          /\ \A o \in Rows(orders) : o.order_total # PLACEHOLDER_TOTAL
    /\ files["orders"].state = "written" =>
          /\ Len(files["orders"].rows) = NUM_ORDERS
          /\ \A o \in Rows(files["orders"].rows) : o.order_total # PLACEHOLDER_TOTAL

\* orders.csv has just been written and the process still runs.
C4_Witness ==
    /\ pc = "write_order_items"
    /\ files["orders"].state = "written"
    /\ Len(files["orders"].rows) >= 2

\* The files the current run has written completely.
WrittenNow == {i \in 1..Len(FileNames) :
                  /\ files[FileNames[i]].state = "written"
                  /\ files[FileNames[i]].run = run}

\* C5 as stated: the five files of the current run are all present or none is.
C5_AtomicBatch ==
    WrittenNow = {} \/ WrittenNow = 1..Len(FileNames)

\* C5, amended: nothing is written before the five tables are complete; the
\* files are written one after another in the order of FileNames, so those of
\* the current run are always the first k of them (all five once main()
\* returns); when a write fails, the files before it stay, the failing file
\* is left as it was or truncated, and the files after it are not touched.
C5_SequentialBatch ==
    LET k == Cardinality(WrittenNow)
        InOrder == WrittenNow = 1..k
        Complete ==
            /\ Len(products) = NUM_PRODUCTS
            /\ Len(customers) = NUM_CUSTOMERS
            /\ Len(orders) = NUM_ORDERS
            /\ order_idx = NUM_ORDERS
            /\ \A i \in WrittenNow : files[FileNames[i]].rows = Table(FileNames[i])
    IN  /\ InOrder
        /\ pc \in WriteStages => Complete /\ pc = WriteStage(FileNames[k + 1])
        /\ pc \notin WriteStages \cup {"done", "crashed"} => k = 0
        /\ pc = "done" => k = Len(FileNames)
        /\ \A i \in 1..Len(FileNames) :
              i > k => \/ files[FileNames[i]] = NoFile
                       \/ /\ pc = "crashed"
                          /\ i = k + 1
                          /\ files[FileNames[i]].state = "partial"

\* A write failed after two files were written: two files of the run exist
\* beside a truncated one and two missing ones.
C5_Witness ==
    /\ pc = "crashed"
    /\ WrittenNow = {1, 2}
    /\ files["orders"].state = "partial"
    /\ files["reviews"].state = "missing"

\* C6: a downstream script started before its input exists raises
\* FileNotFoundError before it changes or creates a database, a table or a
\* chart file: the database and the chart are as they were at its start.
C6_FailFastNoEffect ==
    (dpc = "exited" /\ raised = "FileNotFoundError") =>
        /\ db = at_start[1]
        /\ chart = at_start[2]

\* C7: every foreign key resolves: an order's customer_id is a customer's id,
\* an order item's order_id is an order's id and its product_id a product's.
C7_ForeignKeysResolve ==
    /\ \A o \in Rows(orders) :
          \E c \in Rows(customers) : c.customer_id = o.customer_id
    /\ \A it \in Rows(order_items) :
          /\ \E o \in Rows(orders) : o.order_id = it.order_id
          /\ \E p \in Rows(products) : p.product_id = it.product_id

\* The pipeline is through with orders of two customers and rows of two
\* products.
C7_Witness ==
    /\ pc \in WriteStages
    /\ \E a, b \in Rows(orders) : a.customer_id # b.customer_id
    /\ \E a, b \in Rows(order_items) : a.product_id # b.product_id

\* C8: every order create_order_items has processed has at least 1 and at
\* most MAX_ITEMS_PER_ORDER rows, a product drawn twice giving two rows.
C8_ItemCountInRange ==
    LET done == IF pc = "order_items" THEN order_idx ELSE Len(orders)
    IN  pc \in {"order_items", "reviews"} \cup WriteStages =>
            \A i \in 1..done :
                LET n == Len(LineTotalsOf(order_items, orders[i].order_id))
                IN  1 <= n /\ n <= MAX_ITEMS_PER_ORDER

\* An order holds two rows of the same product, and as many rows as allowed.
C8_Witness ==
    /\ pc \in WriteStages
    /\ \E a, b \in Rows(order_items) :
          /\ a.order_id = b.order_id
          /\ a.product_id = b.product_id
          /\ a.order_item_id # b.order_item_id
          /\ Len(LineTotalsOf(order_items, a.order_id)) = MAX_ITEMS_PER_ORDER

\* C9: create_reviews emits at most one review per order, skips an order
\* without rows in order_items without raising, and numbers the reviews
\* 1..n without gaps.
C9_OneReviewPerOrder ==
    /\ pc # "crashed"
    /\ \A i, j \in 1..Len(reviews) :
          reviews[i].order_id = reviews[j].order_id => i = j
    /\ \A r \in Rows(reviews) :
          \E it \in Rows(order_items) : it.order_id = r.order_id
    /\ \A i \in 1..Len(reviews) : reviews[i].review_id = i

\* The loop is over; the first order has no rows, a later one has several and
\* got the review numbered 1.
C9_Witness ==
    /\ pc = "write_products"
    /\ Len(LineTotalsOf(order_items, 1)) = 0
    /\ \E r \in Rows(reviews) :
          /\ r.review_id = 1
          /\ r.order_id > 1
          /\ Len(LineTotalsOf(order_items, r.order_id)) > 1

\* C10: the loader enforces the foreign keys: foreign-key checking is on for
\* the connection bulk_insert inserts through, a table is appended only after
\* the tables it references, and at every point of the load every foreign
\* key of a row in the database names a row in the database.
C10_LoaderEnforcesForeignKeys ==
    /\ (dpc = "bulk_insert") => conn_fk
    /\ \A i \in 1..insert_idx :
          \A fk \in ForeignKeys(InsertOrder[i]) :
              \E j \in 1..(i - 1) : InsertOrder[j] = fk[2]
    /\ \A n \in FileSet :
          \A r \in Rows(db.rows[n]) : KeysResolve(n, r, db.rows)

\* A load of five complete files has run to its end, reviews included.
C10_Witness ==
    /\ script = "ingest_sqlite"
    /\ dpc = "exited"
    /\ raised = "none"
    /\ insert_idx = Len(InsertOrder)
    /\ Len(db.rows["order_items"]) > 0
    /\ Len(db.rows["reviews"]) > 0

=============================================================================
